---------------------------- MODULE Spec2Model ----------------------------
(***************************************************************************)
(* A model of akahu_to_budget: the account-mapping script                  *)
(* (akahu_budget_mapping.py), the polling/sync service (flask_app.py) and  *)
(* the configuration module (modules/config.py).                           *)
(*                                                                         *)
(* One process is modelled per behaviour: `prog` says which program it     *)
(* is.  The upstream platforms are the variable `world`; the mapping       *)
(* document on disk is `persisted`.                                        *)
(***************************************************************************)
EXTENDS Integers, Sequences, FiniteSets, TLC

VARIABLES
    prog,        \* "mapping" (akahu_budget_mapping.py) or "flask" (flask_app.py)
    env,         \* os.environ after load_dotenv: key -> value, NONE when unset
    pc,          \* position of the main thread
    runNo,       \* number of the current invocation of the mapping script
    world,       \* the accounts each platform currently holds upstream
    changes,     \* upstream changes so far
    persisted,   \* the mapping document on disk
    writing,     \* a write of the mapping document is in progress
    latest,      \* latest_akahu_accounts, latest_actual_accounts, latest_ynab_accounts
    existing,    \* what load_existing_mapping returned (mapping mutated by the backfill)
    merged,      \* what merge_and_update_mapping returned
    new_mapping, \* main's new_mapping
    matches,     \* what check_for_changes returned
    hist,        \* observations of the current run (which calls happened)
    prev,        \* observations carried over from the previous run
    sched,       \* the BackgroundScheduler of flask_app.py
    syncs,       \* executions of run_sync in progress, by job id
    lastSync     \* the latest call of run_sync: its argument and what it synced

vars == << prog, env, pc, runNo, world, changes, persisted, writing, latest,
           existing, merged, new_mapping, matches, hist, prev, sched, syncs,
           lastSync >>

-----------------------------------------------------------------------------
(* Bounds of the model *)

MaxMissing == 1     \* environment variables left unset at start
MaxRuns    == 2     \* invocations of the mapping script
MaxChanges == 1     \* upstream changes (add, remove, rename, balance)
MaxTicks   == 2     \* firings of the 4-hourly interval trigger

-----------------------------------------------------------------------------
(* Values *)

NONE   == "NONE"      \* Python's None
ABSENT == "ABSENT"    \* a key that a dict does not hold

AkahuIds  == {"a1", "a2"}
YnabIds   == {"y1", "y2"}
ActualIds == {"x1"}
Names     == {"Save", "save", "Bills"}
Platforms == {"akahu", "actual", "ynab"}

IdsOf(p) == CASE p = "akahu"  -> AkahuIds
              [] p = "actual" -> ActualIds
              [] p = "ynab"   -> YnabIds

EmptyDict == << >>

\* A Python value that is None or a list of strings.
PyNone == [none |-> TRUE, items |-> << >>]
PyList(items) == [none |-> FALSE, items |-> items]

Keys == { "ACTUAL_SERVER_URL", "ACTUAL_PASSWORD", "ACTUAL_SYNC_ID",
          "ACTUAL_ENCRYPTION_KEY",
          "AKAHU_USER_TOKEN", "AKAHU_APP_TOKEN", "AKAHU_PUBLIC_KEY",
          "OPENAI_API_KEY", "YNAB_BEARER_TOKEN", "YNAB_BUDGET_ID",
          "RUN_SYNC_TO_YNAB", "RUN_SYNC_TO_AB" }

FlagKeys == {"RUN_SYNC_TO_YNAB", "RUN_SYNC_TO_AB"}

\* The values a key may be set to.
ValuesOf(k) == CASE k \in FlagKeys        -> {"True", "false"}
                 [] k = "YNAB_BUDGET_ID"  -> {"b1"}
                 [] k = "ACTUAL_SYNC_ID"  -> {"f1"}
                 [] OTHER                 -> {"set"}

\* str.lower() on the values above.
Lower(s) == CASE s = "True"  -> "true"
              [] s = "Save"  -> "save"
              [] s = "Bills" -> "bills"
              [] OTHER       -> s

\* os.getenv(key)
getenv(e, k) == e[k]

-----------------------------------------------------------------------------
(* modules/config.py *)

config_required_envs ==
    { "ACTUAL_SERVER_URL", "ACTUAL_PASSWORD", "ACTUAL_SYNC_ID",
      "AKAHU_USER_TOKEN", "AKAHU_APP_TOKEN", "YNAB_BEARER_TOKEN",
      "RUN_SYNC_TO_YNAB", "RUN_SYNC_TO_AB" }

config_ENVs(e) == [k \in config_required_envs |-> getenv(e, k)]

\* The validation loop of config.py: no required value is None.
ConfigEnvsPresent(e) == \A k \in DOMAIN config_ENVs(e) : config_ENVs(e)[k] # NONE

\* Evaluated only when ConfigEnvsPresent holds (the import has raised otherwise).
RUN_SYNC_TO_YNAB(e) == Lower(config_ENVs(e)["RUN_SYNC_TO_YNAB"]) = "true"
RUN_SYNC_TO_AB(e)   == Lower(config_ENVs(e)["RUN_SYNC_TO_AB"]) = "true"

\* "Validate that at least one sync target is enabled"
ConfigTargetEnabledMutant(e) == TRUE
ConfigTargetEnabled(e) == RUN_SYNC_TO_YNAB(e) \/ RUN_SYNC_TO_AB(e)

\* Importing modules.config succeeds.
ConfigImportOk(e) == ConfigEnvsPresent(e) /\ ConfigTargetEnabled(e)

-----------------------------------------------------------------------------
(* akahu_budget_mapping.py, module level *)

required_envs(e) ==
    { "AKAHU_USER_TOKEN", "AKAHU_APP_TOKEN", "AKAHU_PUBLIC_KEY", "OPENAI_API_KEY" }
    \cup (IF RUN_SYNC_TO_AB(e)
            THEN {"ACTUAL_SERVER_URL", "ACTUAL_PASSWORD", "ACTUAL_SYNC_ID"} ELSE {})
    \cup (IF RUN_SYNC_TO_YNAB(e)
            THEN {"YNAB_BEARER_TOKEN", "YNAB_BUDGET_ID"} ELSE {})

ENVs(e) == [k \in required_envs(e) |-> getenv(e, k)]

\* The validation loop of the script.
ScriptEnvsPresent(e) == \A k \in DOMAIN ENVs(e) : ENVs(e)[k] # NONE

\* The script's module level runs to the end: modules.config imported, then
\* the script's own validation.
ScriptImportOk(e) == ConfigImportOk(e) /\ ScriptEnvsPresent(e)

-----------------------------------------------------------------------------
(* The data model: catalogs, mapping entries, the mapping document *)

\* An AccountRecord of a catalog.  seq is a run-local sequence number that a
\* fetch attaches (0: none); removed is the soft-delete marker.
Record(n, b, r, s) == [name |-> n, balance |-> b, removed |-> r, seq |-> s]

\* A mapping entry without any target.
NewEntry(a) ==
    [ akahu_account_id  |-> a,
      ynab_account_id   |-> ABSENT, ynab_budget_id   |-> ABSENT,
      actual_account_id |-> ABSENT, actual_budget_id |-> ABSENT,
      ynab_skip |-> FALSE, actual_skip |-> FALSE ]

EmptyDoc ==
    [ akahu_accounts |-> EmptyDict, actual_accounts |-> EmptyDict,
      ynab_accounts |-> EmptyDict, mapping |-> EmptyDict ]

\* The entry's target account id (resp. budget id, skip marker) for a platform tag.
AccountId(entry, tag) ==
    IF tag = "ynab" THEN entry.ynab_account_id ELSE entry.actual_account_id
BudgetId(entry, tag) ==
    IF tag = "ynab" THEN entry.ynab_budget_id ELSE entry.actual_budget_id
Skipped(entry, tag) ==
    IF tag = "ynab" THEN entry.ynab_skip ELSE entry.actual_skip

\* Two mapping entries are bound to the same target account of a platform.
DuplicateTargets(mapping, tag) ==
    \E a, b \in DOMAIN mapping :
        /\ a # b
        /\ AccountId(mapping[a], tag) \notin {ABSENT, NONE}
        /\ AccountId(mapping[a], tag) = AccountId(mapping[b], tag)

-----------------------------------------------------------------------------
(* modules/account_mapper.py: Mapping Store *)

\* load_existing_mapping: the three catalogs and the mapping, as persisted; with
\* no prior document, empty catalogs and an empty mapping.
load_existing_mapping(doc) ==
    [ akahu |-> doc.akahu_accounts, actual |-> doc.actual_accounts,
      ynab |-> doc.ynab_accounts, mapping |-> doc.mapping ]

StripSeq(cat) == [id \in DOMAIN cat |-> [cat[id] EXCEPT !.seq = 0]]

\* remove_seq: the document without its run-local sequence fields.
remove_seq(doc) ==
    [ akahu_accounts  |-> StripSeq(doc.akahu_accounts),
      actual_accounts |-> StripSeq(doc.actual_accounts),
      ynab_accounts   |-> StripSeq(doc.ynab_accounts),
      mapping         |-> doc.mapping ]

-----------------------------------------------------------------------------
(* modules/account_mapper.py: Change Detector *)

\* unchanged(old, new): same account ids, and the same name and balance for each.
Unchanged(old, new) ==
    /\ DOMAIN old = DOMAIN new
    /\ \A id \in DOMAIN old : /\ old[id].name = new[id].name
                              /\ old[id].balance = new[id].balance

check_for_changes(ex_akahu, la_akahu, ex_actual, la_actual, ex_ynab, la_ynab) ==
    [ akahu  |-> Unchanged(ex_akahu, la_akahu),
      actual |-> Unchanged(ex_actual, la_actual),
      ynab   |-> Unchanged(ex_ynab, la_ynab) ]

-----------------------------------------------------------------------------
(* modules/account_mapper.py: Merge/Reconciler *)

\* One platform: added accounts are inserted, accounts in both are refreshed
\* from the fresh snapshot, accounts gone from the fresh snapshot are retained
\* with the removed marker.
MergeCatalog(ex, fresh) ==
    [id \in DOMAIN ex \cup DOMAIN fresh |->
        IF id \in DOMAIN fresh THEN fresh[id]
        ELSE [ex[id] EXCEPT !.removed = TRUE]]

\* Mapping entries are left as they are.
merge_and_update_mapping(mapping, la_akahu, la_actual, la_ynab, ex_akahu, ex_actual, ex_ynab) ==
    [ mapping |-> mapping,
      akahu   |-> MergeCatalog(ex_akahu, la_akahu),
      actual  |-> MergeCatalog(ex_actual, la_actual),
      ynab    |-> MergeCatalog(ex_ynab, la_ynab) ]

-----------------------------------------------------------------------------
(* modules/account_mapper.py: Matcher *)

\* Name normalisation: case-folding (the names of the model hold no punctuation
\* or institution suffix to strip).
Normalize(name) == Lower(name)

WithTarget(entry, tag, id, budget) ==
    IF tag = "ynab"
      THEN [entry EXCEPT !.ynab_account_id = id, !.ynab_budget_id = budget]
      ELSE [entry EXCEPT !.actual_account_id = id, !.actual_budget_id = budget]

\* "No match" recorded as an explicit skip marker.
WithSkip(entry, tag) ==
    IF tag = "ynab" THEN [entry EXCEPT !.ynab_skip = TRUE]
                    ELSE [entry EXCEPT !.actual_skip = TRUE]

\* The matcher operates on a source account that has no mapping entry, or whose
\* field for the platform is absent and not marked "skip".
NeedsMatch(mapping, a, tag) ==
    \/ a \notin DOMAIN mapping
    \/ /\ AccountId(mapping[a], tag) = ABSENT
       /\ ~Skipped(mapping[a], tag)

\* The unmapped accounts of the target platform: not removed and not the target
\* of any mapping entry.
CandidatesMutant(mapping, targets, tag) ==
    {t \in DOMAIN targets : ~targets[t].removed}
Candidates(mapping, targets, tag) ==
    {t \in DOMAIN targets :
        /\ ~targets[t].removed
        /\ \A a \in DOMAIN mapping : AccountId(mapping[a], tag) # t}

\* One source account a.  An exact normalised-name match against exactly one
\* candidate is accepted without a prompt; anything else escalates, and what
\* the language model and then the operator answer (ans) is accepted only when
\* it names a candidate: any other answer ends as "no match".
MatchOne(acc, a, source, targets, tag, budget, ans) ==
    LET cands == Candidates(acc.mapping, targets, tag)
        exact == {t \in cands :
                     Normalize(targets[t].name) = Normalize(source[a].name)}
        auto  == Cardinality(exact) = 1
        pick  == IF auto THEN CHOOSE t \in exact : TRUE
                 ELSE IF ans \in cands THEN ans ELSE "skip"
        base  == IF a \in DOMAIN acc.mapping THEN acc.mapping[a] ELSE NewEntry(a)
        entry == IF pick = "skip" THEN WithSkip(base, tag)
                 ELSE WithTarget(base, tag, pick, budget)
    IN  [ acc EXCEPT
            !.mapping  = [x \in DOMAIN acc.mapping \cup {a} |->
                             IF x = a THEN entry ELSE acc.mapping[x]],
            !.operated = acc.operated \cup {<<a, tag>>},
            !.prompted = IF auto THEN acc.prompted
                         ELSE acc.prompted \cup {<<a, tag>>} ]

\* The source accounts in the order of the sorted dict, from position i on.
RECURSIVE MatchLoop(_, _, _, _, _, _, _, _)
MatchLoop(acc, i, order, source, targets, tag, budget, ans) ==
    IF i > Len(order) THEN acc
    ELSE LET a == order[i]
             next == IF ~source[a].removed /\ NeedsMatch(acc.mapping, a, tag)
                       THEN MatchOne(acc, a, source, targets, tag, budget, ans[a])
                       ELSE acc
         IN  MatchLoop(next, i + 1, order, source, targets, tag, budget, ans)

\* match_accounts(mapping, source accounts, target accounts, platform_tag):
\* acc carries the mapping and the record of what the matcher did.
match_accounts(acc, order, source, targets, tag, budget, ans) ==
    LET r == MatchLoop(acc, 1, order, source, targets, tag, budget, ans)
    IN  [r EXCEPT !.calls = acc.calls \cup {tag}]

-----------------------------------------------------------------------------
(* akahu_budget_mapping.py: main, the steps between the calls *)

\* "Retrofit budget IDs to existing mappings": one mapping entry.
BackfillEntryOverwrite(m, e) ==
    LET m1 == IF m.ynab_account_id # ABSENT
                THEN [m EXCEPT !.ynab_budget_id = getenv(e, "YNAB_BUDGET_ID")]
                ELSE m
    IN  IF m1.actual_account_id # ABSENT
          THEN [m1 EXCEPT !.actual_budget_id = getenv(e, "ACTUAL_SYNC_ID")]
          ELSE m1
BackfillEntryWrongKey(m, e) ==
    LET m1 == IF m.ynab_account_id # ABSENT /\ m.ynab_budget_id = ABSENT
                THEN [m EXCEPT !.ynab_account_id = getenv(e, "YNAB_BUDGET_ID")]
                ELSE m
    IN  IF m1.actual_account_id # ABSENT /\ m1.actual_budget_id = ABSENT
          THEN [m1 EXCEPT !.actual_account_id = getenv(e, "ACTUAL_SYNC_ID")]
          ELSE m1
BackfillEntry(m, e) ==
    LET m1 == IF m.ynab_account_id # ABSENT /\ m.ynab_budget_id = ABSENT
                THEN [m EXCEPT !.ynab_budget_id = getenv(e, "YNAB_BUDGET_ID")]
                ELSE m
    IN  IF m1.actual_account_id # ABSENT /\ m1.actual_budget_id = ABSENT
          THEN [m1 EXCEPT !.actual_budget_id = getenv(e, "ACTUAL_SYNC_ID")]
          ELSE m1

Backfill(mapping, e) == [a \in DOMAIN mapping |-> BackfillEntry(mapping[a], e)]

\* sorted(akahu_accounts.items(), key=name.lower()): the order of the dict.
LowerRank(s) == CASE s = "bills" -> 1 [] s = "save" -> 2
IdRank(a) == CASE a = "a1" -> 1 [] a = "a2" -> 2

Before(cat, x, y) ==
    \/ LowerRank(Lower(cat[x].name)) < LowerRank(Lower(cat[y].name))
    \/ /\ LowerRank(Lower(cat[x].name)) = LowerRank(Lower(cat[y].name))
       /\ IdRank(x) < IdRank(y)

RECURSIVE SortByName(_, _)
SortByName(cat, ids) ==
    IF ids = {} THEN << >>
    ELSE LET first == CHOOSE x \in ids : \A y \in ids \ {x} : Before(cat, x, y)
         IN  <<first>> \o SortByName(cat, ids \ {first})

-----------------------------------------------------------------------------
(* Initial states *)

\* The upstream accounts at the start: one account per platform whose names
\* agree up to case, or two aggregator accounts against two equally named
\* target accounts.
World1 ==
    [ akahu  |-> [id \in {"a1"} |-> [name |-> "Save", balance |-> 0]],
      actual |-> [id \in {"x1"} |-> [name |-> "Save", balance |-> 0]],
      ynab   |-> [id \in {"y1"} |-> [name |-> "save", balance |-> 0]] ]
World2 ==
    [ akahu  |-> [id \in {"a1", "a2"} |->
                    [name |-> IF id = "a1" THEN "Save" ELSE "Bills", balance |-> 0]],
      actual |-> [id \in {"x1"} |-> [name |-> "Bills", balance |-> 1]],
      ynab   |-> [id \in {"y1", "y2"} |->
                    [name |-> IF id = "y1" THEN "Save" ELSE "save", balance |-> 0]] ]
InitWorlds == {World1, World2}

\* A snapshot as a catalog of the document (no sequence number, nothing removed).
AsCatalog(snap) ==
    [id \in DOMAIN snap |-> Record(snap[id].name, snap[id].balance, FALSE, 0)]

\* The entries a document written by an earlier version may hold for a1: each
\* target absent, bound without a budget id, or bound with the budget id of then.
LegacyEntries ==
    { [ NewEntry("a1") EXCEPT !.ynab_account_id = y[1], !.ynab_budget_id = y[2],
                              !.actual_account_id = x[1], !.actual_budget_id = x[2] ] :
        y \in {<<ABSENT, ABSENT>>, <<"y1", ABSENT>>, <<"y1", "b0">>},
        x \in {<<ABSENT, ABSENT>>, <<"x1", ABSENT>>, <<"x1", "f0">>} }

\* The entry of a2 in a document in which both aggregator accounts are bound.
BoundEntry ==
    [ NewEntry("a2") EXCEPT !.ynab_account_id = "y2", !.ynab_budget_id = "b1",
                            !.actual_account_id = "x1", !.actual_budget_id = "f1" ]

\* The documents a first start may find: none (bootstrap), or the document of
\* an earlier run against the same upstream accounts.
InitDocs(w) ==
    {EmptyDoc} \cup
    { [ akahu_accounts  |-> AsCatalog(w.akahu),
        actual_accounts |-> AsCatalog(w.actual),
        ynab_accounts   |-> AsCatalog(w.ynab),
        mapping         |-> [a \in {"a1"} |-> entry] ] : entry \in LegacyEntries }
    \cup
    { [ akahu_accounts  |-> AsCatalog(w.akahu),
        actual_accounts |-> AsCatalog(w.actual),
        ynab_accounts   |-> AsCatalog(w.ynab),
        mapping         |-> [a \in {"a1", "a2"} |->
                               IF a = "a1" THEN entry ELSE BoundEntry] ] :
        entry \in {e \in LegacyEntries : "a2" \in DOMAIN w.akahu
                                           /\ e.ynab_budget_id = "b0"
                                           /\ e.actual_account_id = ABSENT} }

\* Every key set to a value, but for the keys of `missing`.
EnvWith(missing, fy, fa) ==
    [k \in Keys |->
        IF k \in missing THEN NONE
        ELSE IF k = "RUN_SYNC_TO_YNAB" THEN fy
        ELSE IF k = "RUN_SYNC_TO_AB" THEN fa
        ELSE CHOOSE v \in ValuesOf(k) : TRUE]

NoSnapshots == [akahu |-> EmptyDict, actual |-> EmptyDict, ynab |-> EmptyDict]
NoLoad      == load_existing_mapping(EmptyDoc)
NoMerge     == [akahu |-> EmptyDict, actual |-> EmptyDict, ynab |-> EmptyDict,
                order |-> << >>]
NoMatches   == [akahu |-> FALSE, actual |-> FALSE, ynab |-> FALSE]
NoHist ==
    [ fetched |-> {}, failed |-> NONE, backfilled |-> FALSE, mergeCalled |-> FALSE,
      merge_mapping |-> EmptyDict, detected |-> FALSE, calls |-> {},
      operated |-> {}, prompted |-> {}, saveCalled |-> FALSE ]
JobIds == {"akahu_polling_sync", "akahu_initial_sync", "cli", "call"}
NoSched == [running |-> FALSE, initial |-> "none", ticks |-> 0, dropped |-> 0]
NoSync ==
    [ called |-> FALSE, account_ids |-> PyNone, outcome |-> "none",
      sync_to_ab |-> FALSE, ab |-> {}, sync_to_ynab |-> FALSE, ynab |-> {} ]

Init ==
    /\ prog \in {"mapping", "flask"}
    /\ \E missing \in {m \in SUBSET Keys : Cardinality(m) <= MaxMissing} :
         \E fy \in ValuesOf("RUN_SYNC_TO_YNAB"), fa \in ValuesOf("RUN_SYNC_TO_AB") :
            env = EnvWith(missing, fy, fa)
    /\ pc = "import"
    /\ runNo = 1
    /\ world \in InitWorlds
    /\ changes = 0
    /\ persisted \in InitDocs(world)
    /\ writing = FALSE
    /\ latest = NoSnapshots
    /\ existing = NoLoad
    /\ merged = NoMerge
    /\ new_mapping = EmptyDict
    /\ matches = NoMatches
    /\ hist = NoHist
    /\ prev = [done |-> FALSE, world |-> world, doc |-> persisted]
    /\ sched = NoSched
    /\ syncs = [j \in JobIds |-> 0]
    /\ lastSync = NoSync

-----------------------------------------------------------------------------
(* Upstream: what the fetchers read *)

\* A fetcher's result: the platform's accounts, each with the sequence number
\* of this fetch.
Fetch(p) ==
    [id \in DOMAIN world[p] |->
        Record(world[p][id].name, world[p][id].balance, FALSE, runNo)]

ScriptVars == << latest, existing, merged, new_mapping, matches >>
FlaskVars  == << sched, syncs, lastSync >>

\* An account is opened, closed, renamed or changes its balance upstream,
\* before the run fetches anything.
WorldChange ==
    /\ prog = "mapping"
    /\ pc = "main"
    /\ changes < MaxChanges
    /\ \E p \in Platforms :
         \E id \in IdsOf(p) :
            IF id \in DOMAIN world[p]
              THEN \E kind \in {"remove", "rename", "balance"} :
                     \E n \in Names \ {world[p][id].name} :
                        world' = [world EXCEPT ![p] =
                           CASE kind = "remove" ->
                                  [x \in DOMAIN world[p] \ {id} |-> world[p][x]]
                             [] kind = "rename" ->
                                  [world[p] EXCEPT ![id].name = n]
                             [] kind = "balance" ->
                                  [world[p] EXCEPT ![id].balance = 1 - @]]
              ELSE \E n \in Names :
                     world' = [world EXCEPT ![p] =
                        [x \in DOMAIN world[p] \cup {id} |->
                            IF x = id THEN [name |-> n, balance |-> 0]
                            ELSE world[p][x]]]
    /\ changes' = changes + 1
    /\ UNCHANGED << prog, env, pc, runNo, persisted, writing, hist, prev >>
    /\ UNCHANGED ScriptVars
    /\ UNCHANGED FlaskVars

-----------------------------------------------------------------------------
(* akahu_budget_mapping.py *)

\* Module level: import of modules.config, then the script's own validation.
\* Either raises EnvironmentError, or `main()` is called.
ScriptStartup ==
    /\ prog = "mapping"
    /\ pc = "import"
    /\ pc' = IF ScriptImportOk(env) THEN "main" ELSE "config_error"
    /\ UNCHANGED << prog, env, runNo, world, changes, persisted, writing, hist, prev >>
    /\ UNCHANGED ScriptVars
    /\ UNCHANGED FlaskVars

\* The keys main reads from ENVs to build the Actual client.
ActualArgKeys ==
    {"ACTUAL_SERVER_URL", "ACTUAL_PASSWORD", "ACTUAL_SYNC_ID", "ACTUAL_ENCRYPTION_KEY"}

\* `except Exception as e: logging.error(...); raise`
OnActualFailureSwallowed == "fetch_ynab"
OnActualFailure == "aborted"

\* latest_actual_accounts = {}; with RUN_SYNC_TO_AB the arguments of Actual(...)
\* are read from ENVs (a key ENVs does not hold raises KeyError inside the
\* try), then the client connects and the accounts are fetched (ok: both
\* succeed).  Every exception is logged and raised again.
MainFetchActual ==
    /\ prog = "mapping"
    /\ pc = "main"
    /\ IF RUN_SYNC_TO_AB(env)
         THEN \E ok \in BOOLEAN :
                IF ~(ActualArgKeys \subseteq DOMAIN ENVs(env))
                  THEN /\ latest' = [latest EXCEPT !.actual = EmptyDict]
                       /\ hist' = [hist EXCEPT !.failed = "KeyError"]
                       /\ pc' = OnActualFailure
                  ELSE IF ok
                  THEN /\ latest' = [latest EXCEPT !.actual = Fetch("actual")]
                       /\ hist' = [hist EXCEPT !.fetched = @ \cup {"actual"}]
                       /\ pc' = "fetch_ynab"
                  ELSE /\ latest' = [latest EXCEPT !.actual = EmptyDict]
                       /\ hist' = [hist EXCEPT !.failed = "actual"]
                       /\ pc' = OnActualFailure
         ELSE /\ latest' = [latest EXCEPT !.actual = EmptyDict]
              /\ pc' = "fetch_ynab"
              /\ UNCHANGED hist
    /\ UNCHANGED << prog, env, runNo, world, changes, persisted, writing, prev >>
    /\ UNCHANGED << existing, merged, new_mapping, matches >>
    /\ UNCHANGED FlaskVars

\* latest_ynab_accounts = {}; with RUN_SYNC_TO_YNAB, fetch_ynab_accounts(),
\* whose failure propagates out of main.
MainFetchYnab ==
    /\ prog = "mapping"
    /\ pc = "fetch_ynab"
    /\ IF RUN_SYNC_TO_YNAB(env)
         THEN \E ok \in BOOLEAN :
                IF ok
                  THEN /\ latest' = [latest EXCEPT !.ynab = Fetch("ynab")]
                       /\ hist' = [hist EXCEPT !.fetched = @ \cup {"ynab"}]
                       /\ pc' = "load"
                  ELSE /\ latest' = [latest EXCEPT !.ynab = EmptyDict]
                       /\ hist' = [hist EXCEPT !.failed = "ynab"]
                       /\ pc' = "aborted"
         ELSE /\ latest' = [latest EXCEPT !.ynab = EmptyDict]
              /\ pc' = "load"
              /\ UNCHANGED hist
    /\ UNCHANGED << prog, env, runNo, world, changes, persisted, writing, prev >>
    /\ UNCHANGED << existing, merged, new_mapping, matches >>
    /\ UNCHANGED FlaskVars

\* Step 0: load_existing_mapping(generate_stub=True)
MainLoad ==
    /\ prog = "mapping"
    /\ pc = "load"
    /\ existing' = load_existing_mapping(persisted)
    /\ pc' = "backfill"
    /\ UNCHANGED << prog, env, runNo, world, changes, persisted, writing, hist, prev >>
    /\ UNCHANGED << latest, merged, new_mapping, matches >>
    /\ UNCHANGED FlaskVars

\* The retrofit loop over existing_mapping.values()
MainBackfill ==
    /\ prog = "mapping"
    /\ pc = "backfill"
    /\ existing' = [existing EXCEPT !.mapping = Backfill(existing.mapping, env)]
    /\ hist' = [hist EXCEPT !.backfilled = TRUE]
    /\ pc' = "fetch_akahu"
    /\ UNCHANGED << prog, env, runNo, world, changes, persisted, writing, prev >>
    /\ UNCHANGED << latest, merged, new_mapping, matches >>
    /\ UNCHANGED FlaskVars

\* Step 1: fetch_akahu_accounts(), whose failure propagates out of main.
MainFetchAkahu ==
    /\ prog = "mapping"
    /\ pc = "fetch_akahu"
    /\ \E ok \in BOOLEAN :
         IF ok
           THEN /\ latest' = [latest EXCEPT !.akahu = Fetch("akahu")]
                /\ hist' = [hist EXCEPT !.fetched = @ \cup {"akahu"}]
                /\ pc' = "merge"
           ELSE /\ latest' = [latest EXCEPT !.akahu = EmptyDict]
                /\ hist' = [hist EXCEPT !.failed = "akahu"]
                /\ pc' = "aborted"
    /\ UNCHANGED << prog, env, runNo, world, changes, persisted, writing, prev >>
    /\ UNCHANGED << existing, merged, new_mapping, matches >>
    /\ UNCHANGED FlaskVars

\* Step 4: merge_and_update_mapping, the sort of akahu_accounts by lower-cased
\* name, and new_mapping = existing_mapping.copy()
MainMerge ==
    /\ prog = "mapping"
    /\ pc = "merge"
    /\ LET r == merge_and_update_mapping(existing.mapping,
                    latest.akahu, latest.actual, latest.ynab,
                    existing.akahu, existing.actual, existing.ynab)
       IN  /\ existing' = [existing EXCEPT !.mapping = r.mapping]
           /\ merged' = [ akahu |-> r.akahu, actual |-> r.actual, ynab |-> r.ynab,
                          order |-> SortByName(r.akahu, DOMAIN r.akahu) ]
           /\ new_mapping' = r.mapping
           /\ hist' = [hist EXCEPT !.mergeCalled = TRUE, !.merge_mapping = r.mapping]
    /\ pc' = "detect"
    /\ UNCHANGED << prog, env, runNo, world, changes, persisted, writing, prev >>
    /\ UNCHANGED << latest, matches >>
    /\ UNCHANGED FlaskVars

\* "Compare accounts for changes": check_for_changes on the catalogs as loaded
\* and the snapshots as fetched.
MainDetect ==
    /\ prog = "mapping"
    /\ pc = "detect"
    /\ matches' = check_for_changes(existing.akahu, latest.akahu,
                                    existing.actual, latest.actual,
                                    existing.ynab, latest.ynab)
    /\ hist' = [hist EXCEPT !.detected = TRUE]
    /\ pc' = "match"
    /\ UNCHANGED << prog, env, runNo, world, changes, persisted, writing, prev >>
    /\ UNCHANGED << latest, existing, merged, new_mapping >>
    /\ UNCHANGED FlaskVars

\* "if akahu_accounts_match and actual_accounts_match and ynab_accounts_match"
SkipMatchInverted(m) == ~(m.akahu /\ m.actual /\ m.ynab)
SkipMatch(m) == m.akahu /\ m.actual /\ m.ynab

\* Steps 6 and 5: match_accounts for "ynab", then for "actual", unless nothing
\* changed.  ansY and ansA are what the language model and the operator answer
\* when the matcher escalates.
MainMatch ==
    /\ prog = "mapping"
    /\ pc = "match"
    /\ IF SkipMatch(matches)
         THEN UNCHANGED << new_mapping, hist >>
         ELSE \E ansY \in [AkahuIds -> YnabIds \cup {"skip"}],
                 ansA \in [AkahuIds -> ActualIds \cup {"skip"}] :
                LET acc0 == [ mapping |-> new_mapping, operated |-> {},
                              prompted |-> {}, calls |-> {} ]
                    acc1 == IF RUN_SYNC_TO_YNAB(env)
                              THEN match_accounts(acc0, merged.order, merged.akahu,
                                       merged.ynab, "ynab",
                                       getenv(env, "YNAB_BUDGET_ID"), ansY)
                              ELSE acc0
                    acc2 == IF RUN_SYNC_TO_AB(env)
                              THEN match_accounts(acc1, merged.order, merged.akahu,
                                       merged.actual, "actual",
                                       getenv(env, "ACTUAL_SYNC_ID"), ansA)
                              ELSE acc1
                IN  /\ new_mapping' = acc2.mapping
                    /\ hist' = [hist EXCEPT !.calls = acc2.calls,
                                            !.operated = acc2.operated,
                                            !.prompted = acc2.prompted]
    /\ pc' = "save"
    /\ UNCHANGED << prog, env, runNo, world, changes, persisted, writing, prev >>
    /\ UNCHANGED << latest, existing, merged, matches >>
    /\ UNCHANGED FlaskVars

\* Step 7: data_to_save
data_to_saveStale ==
    [ akahu_accounts |-> merged.akahu, actual_accounts |-> merged.actual,
      ynab_accounts |-> merged.ynab, mapping |-> existing.mapping ]
data_to_save ==
    [ akahu_accounts |-> merged.akahu, actual_accounts |-> merged.actual,
      ynab_accounts |-> merged.ynab, mapping |-> new_mapping ]

\* save_mapping(remove_seq(data_to_save)) is entered: the write begins.
MainSaveBegin ==
    /\ prog = "mapping"
    /\ pc = "save"
    /\ writing' = TRUE
    /\ hist' = [hist EXCEPT !.saveCalled = TRUE]
    /\ pc' = "saving"
    /\ UNCHANGED << prog, env, runNo, world, changes, persisted, prev >>
    /\ UNCHANGED ScriptVars
    /\ UNCHANGED FlaskVars

\* The write completes: the document on disk is the document handed to
\* save_mapping, and main returns.
MainSaveEnd ==
    /\ prog = "mapping"
    /\ pc = "saving"
    /\ persisted' = remove_seq(data_to_save)
    /\ writing' = FALSE
    /\ pc' = "done"
    /\ UNCHANGED << prog, env, runNo, world, changes, hist, prev >>
    /\ UNCHANGED ScriptVars
    /\ UNCHANGED FlaskVars

MainPcs == { "main", "fetch_ynab", "load", "backfill", "fetch_akahu", "merge",
             "detect", "match", "save", "saving" }

\* SIGINT or SIGTERM reaches the script, which installs no handler: the process
\* ends where it stands (KeyboardInterrupt, or the default action of SIGTERM).
ScriptSignal ==
    /\ prog = "mapping"
    /\ pc \in MainPcs
    /\ pc' = "killed"
    /\ latest' = NoSnapshots
    /\ existing' = NoLoad
    /\ merged' = NoMerge
    /\ new_mapping' = EmptyDict
    /\ matches' = NoMatches
    /\ UNCHANGED << prog, env, runNo, world, changes, persisted, writing, hist, prev >>
    /\ UNCHANGED FlaskVars

\* The script is started again.
NextRun ==
    /\ prog = "mapping"
    /\ pc \in {"done", "aborted"}
    /\ runNo < MaxRuns
    /\ runNo' = runNo + 1
    /\ pc' = "import"
    /\ prev' = [done |-> (pc = "done"), world |-> world, doc |-> persisted]
    /\ hist' = NoHist
    /\ latest' = NoSnapshots
    /\ existing' = NoLoad
    /\ merged' = NoMerge
    /\ new_mapping' = EmptyDict
    /\ matches' = NoMatches
    /\ UNCHANGED << prog, env, world, changes, persisted, writing >>
    /\ UNCHANGED FlaskVars

-----------------------------------------------------------------------------
(* flask_app.py *)

ScriptOnly == << runNo, world, changes, persisted, writing, hist, prev >>

\* max_instances of the job 'akahu_polling_sync', and of 'akahu_initial_sync',
\* which is added without max_instances and has the scheduler's default.
MaxInstancesPolling == 1
MaxInstancesInitial == 1

max_instances(job) ==
    IF job = "akahu_polling_sync" THEN MaxInstancesPolling ELSE MaxInstancesInitial

\* bool(v): None, the empty list and the empty string are false.
Truthy(v) == ~v.none /\ Len(v.items) > 0

\* `k in account_ids` for a list.
InList(k, v) == \E i \in 1..Len(v.items) : v.items[i] = k

\* What --accounts may be given as (NONE: the option is not given).
AccountsArgs == {NONE, "", "a1", "a2", "a1,a2", "a2,", "a9"}

\* str.split(',') on the strings above.
Split(str) == CASE str = ""      -> <<"">>
                [] str = "a1"    -> <<"a1">>
                [] str = "a2"    -> <<"a2">>
                [] str = "a1,a2" -> <<"a1", "a2">>
                [] str = "a2,"   -> <<"a2", "">>
                [] str = "a9"    -> <<"a9">>

\* account_ids = args.accounts.split(',') if args.accounts else None
CliAccountIds(accounts) ==
    IF accounts # NONE /\ accounts # "" THEN PyList(Split(accounts)) ELSE PyNone

\* The lists a caller of run_sync(account_ids) may pass.
CallAccountIds ==
    { PyList(l) : l \in { << >>, <<"a1">>, <<"a2">>, <<"a1", "a2">>, <<"a9">> } }

\* filtered_mapping = {k: v for k, v in mapping_list.items() if k in account_ids}
filtered_mapping(mapping_list, account_ids) ==
    [k \in {x \in DOMAIN mapping_list : InList(x, account_ids)} |-> mapping_list[k]]

\* run_sync(account_ids): the mapping is loaded; with a truthy account_ids it
\* is filtered, and run_sync returns when nothing is left; then the Actual
\* client is opened (connected: the connection succeeds) and sync_to_ab and
\* sync_to_ynab are called with the mapping list, each when its target is
\* enabled.  ab and ynab are the keys of the mapping list handed over.
run_sync(doc, account_ids, e, connected) ==
    LET loaded   == load_existing_mapping(doc).mapping
        filtered == filtered_mapping(loaded, account_ids)
        early    == Truthy(account_ids) /\ DOMAIN filtered = {}
        mapping_list == IF Truthy(account_ids) THEN filtered ELSE loaded
        raised   == RUN_SYNC_TO_AB(e) /\ ~connected
    IN  [ called       |-> TRUE,
          account_ids  |-> account_ids,
          outcome      |-> IF early THEN "returned"
                           ELSE IF raised THEN "raised" ELSE "completed",
          sync_to_ab   |-> ~early /\ ~raised /\ RUN_SYNC_TO_AB(e),
          ab           |-> IF ~early /\ ~raised /\ RUN_SYNC_TO_AB(e)
                             THEN DOMAIN mapping_list ELSE {},
          sync_to_ynab |-> ~early /\ ~raised /\ RUN_SYNC_TO_YNAB(e),
          ynab         |-> IF ~early /\ ~raised /\ RUN_SYNC_TO_YNAB(e)
                             THEN DOMAIN mapping_list ELSE {} ]

\* Module level: the import of modules.config raises, or the arguments are
\* parsed: --sync runs run_sync and exits, anything else starts the scheduler
\* (as the WSGI import does).
FlaskStartup ==
    /\ prog = "flask"
    /\ pc = "import"
    /\ IF ConfigImportOk(env)
         THEN \E mode \in {"sync", "serve"} :
                pc' = IF mode = "sync" THEN "cli_sync" ELSE "start_scheduler"
         ELSE pc' = "config_error"
    /\ UNCHANGED << prog, env >>
    /\ UNCHANGED ScriptOnly
    /\ UNCHANGED ScriptVars
    /\ UNCHANGED FlaskVars

\* start_scheduler(): both jobs are added and the scheduler is started.
start_scheduler ==
    /\ prog = "flask"
    /\ pc = "start_scheduler"
    /\ sched' = [sched EXCEPT !.running = TRUE, !.initial = "pending"]
    /\ pc' = "serving"
    /\ UNCHANGED << prog, env, syncs, lastSync >>
    /\ UNCHANGED ScriptOnly
    /\ UNCHANGED ScriptVars

\* The scheduler submits a due job to its executor: run_sync starts on a worker
\* thread unless max_instances executions of that same job are running, in
\* which case this firing is skipped.
\* The date trigger of 'akahu_initial_sync' (run_date now) fires, once.
InitialTrigger ==
    /\ prog = "flask"
    /\ sched.running
    /\ sched.initial = "pending"
    /\ sched' = [sched EXCEPT !.initial = "fired"]
    /\ \E connected \in BOOLEAN :
         IF syncs["akahu_initial_sync"] < max_instances("akahu_initial_sync")
           THEN /\ syncs' = [syncs EXCEPT !["akahu_initial_sync"] = @ + 1]
                /\ lastSync' = run_sync(persisted, PyNone, env, connected)
           ELSE UNCHANGED << syncs, lastSync >>
    /\ UNCHANGED << prog, env, pc >>
    /\ UNCHANGED ScriptOnly
    /\ UNCHANGED ScriptVars

\* The interval trigger of 'akahu_polling_sync' fires (every 4 hours).
IntervalTrigger ==
    /\ prog = "flask"
    /\ sched.running
    /\ sched.ticks < MaxTicks
    /\ \E connected \in BOOLEAN :
         IF syncs["akahu_polling_sync"] < max_instances("akahu_polling_sync")
           THEN /\ syncs' = [syncs EXCEPT !["akahu_polling_sync"] = @ + 1]
                /\ lastSync' = run_sync(persisted, PyNone, env, connected)
                /\ sched' = [sched EXCEPT !.ticks = @ + 1]
           ELSE /\ UNCHANGED << syncs, lastSync >>
                /\ sched' = [sched EXCEPT !.ticks = @ + 1, !.dropped = @ + 1]
    /\ UNCHANGED << prog, env, pc >>
    /\ UNCHANGED ScriptOnly
    /\ UNCHANGED ScriptVars

\* `run_sync(account_ids, debug_mode=args.debug)` of the --sync mode starts on
\* the main thread, account_ids parsed from --accounts.
CliSync ==
    /\ prog = "flask"
    /\ pc = "cli_sync"
    /\ \E accounts \in AccountsArgs, connected \in BOOLEAN :
         lastSync' = run_sync(persisted, CliAccountIds(accounts), env, connected)
    /\ syncs' = [syncs EXCEPT !["cli"] = 1]
    /\ pc' = "cli_running"
    /\ UNCHANGED << prog, env, sched >>
    /\ UNCHANGED ScriptOnly
    /\ UNCHANGED ScriptVars

\* run_sync(account_ids) is called with a list by code of the serving
\* process that has imported flask_app.
CallRunSync ==
    /\ prog = "flask"
    /\ pc = "serving"
    /\ syncs["call"] = 0
    /\ \E account_ids \in CallAccountIds, connected \in BOOLEAN :
         lastSync' = run_sync(persisted, account_ids, env, connected)
    /\ syncs' = [syncs EXCEPT !["call"] = 1]
    /\ UNCHANGED << prog, env, pc, sched >>
    /\ UNCHANGED ScriptOnly
    /\ UNCHANGED ScriptVars

\* An execution of run_sync returns (or ends with the exception it raised).
RunSyncEnd ==
    /\ prog = "flask"
    /\ \E job \in JobIds :
         /\ syncs[job] > 0
         /\ syncs' = [syncs EXCEPT ![job] = @ - 1]
         /\ pc' = IF job = "cli" THEN "exit" ELSE pc
    /\ UNCHANGED << prog, env, sched, lastSync >>
    /\ UNCHANGED ScriptOnly
    /\ UNCHANGED ScriptVars

\* signal_handler(sig, frame): scheduler.shutdown(wait=False) when a scheduler
\* is running, then sys.exit(0).
signal_handler ==
    /\ prog = "flask"
    /\ pc \in {"start_scheduler", "serving", "cli_sync", "cli_running"}
    /\ sched' = IF sched.running THEN [sched EXCEPT !.running = FALSE] ELSE sched
    /\ pc' = "exited"
    /\ UNCHANGED << prog, env, syncs, lastSync >>
    /\ UNCHANGED ScriptOnly
    /\ UNCHANGED ScriptVars

-----------------------------------------------------------------------------

Next ==
    \/ WorldChange
    \/ ScriptStartup
    \/ MainFetchActual
    \/ MainFetchYnab
    \/ MainLoad
    \/ MainBackfill
    \/ MainFetchAkahu
    \/ MainMerge
    \/ MainDetect
    \/ MainMatch
    \/ MainSaveBegin
    \/ MainSaveEnd
    \/ ScriptSignal
    \/ NextRun
    \/ FlaskStartup
    \/ start_scheduler
    \/ InitialTrigger
    \/ IntervalTrigger
    \/ CliSync
    \/ CallRunSync
    \/ RunSyncEnd
    \/ signal_handler

Spec == Init /\ [][Next]_vars

-----------------------------------------------------------------------------
(* The budget-id retrofit of main on its own *)

\* The inputs of the retrofit loop: a configuration with which the module
\* level of the script runs to the end, and the mapping as loaded from a
\* document.
BackfillInit ==
    /\ prog = "mapping"
    /\ \E missing \in {m \in SUBSET Keys : Cardinality(m) <= MaxMissing} :
         \E fy \in ValuesOf("RUN_SYNC_TO_YNAB"), fa \in ValuesOf("RUN_SYNC_TO_AB") :
            env = EnvWith(missing, fy, fa)
    /\ ScriptImportOk(env)
    /\ pc = "backfill"
    /\ runNo = 1
    /\ world \in InitWorlds
    /\ changes = 0
    /\ persisted \in InitDocs(world)
    /\ writing = FALSE
    /\ latest = NoSnapshots
    /\ existing = load_existing_mapping(persisted)
    /\ merged = NoMerge
    /\ new_mapping = EmptyDict
    /\ matches = NoMatches
    /\ hist = NoHist
    /\ prev = [done |-> FALSE, world |-> world, doc |-> persisted]
    /\ sched = NoSched
    /\ syncs = [j \in JobIds |-> 0]
    /\ lastSync = NoSync

BackfillSpec == BackfillInit /\ [][MainBackfill]_vars

-----------------------------------------------------------------------------
(* Properties *)

Tags == {"ynab", "actual"}

\* The mapping main is working on, where it holds one.
HasWorking == pc \in {"backfill", "fetch_akahu", "merge", "detect", "match",
                      "save", "saving", "done"}
Working == IF pc \in {"backfill", "fetch_akahu", "merge"}
             THEN existing.mapping ELSE new_mapping

\* The catalog of a document for a platform tag.
CatalogOf(doc, tag) ==
    IF tag = "ynab" THEN doc.ynab_accounts ELSE doc.actual_accounts

\* Every entry of old is in new with the target ids it held; for a platform
\* whose target it held, the budget id is the same unless it was missing and
\* the skip marker is the same.
Preserves(old, new) ==
    \A a \in DOMAIN old :
        /\ a \in DOMAIN new
        /\ new[a].akahu_account_id = old[a].akahu_account_id
        /\ \A tag \in Tags :
              AccountId(old[a], tag) # ABSENT =>
                 /\ AccountId(new[a], tag) = AccountId(old[a], tag)
                 /\ Skipped(new[a], tag) = Skipped(old[a], tag)
                 /\ BudgetId(old[a], tag) # ABSENT =>
                       BudgetId(new[a], tag) = BudgetId(old[a], tag)

\* C1: a target account id that a mapping entry holds when a run starts is
\* never changed or removed by the backfill, the merge, the matcher or the
\* save of that run; an entry that holds it changes at most by gaining the
\* missing budget id.  (prev.doc is the document the run found.)
C1_TargetIdsKept ==
    /\ Preserves(prev.doc.mapping, persisted.mapping)
    /\ (prog = "mapping" /\ HasWorking) => Preserves(prev.doc.mapping, Working)

\* A run that found an entry bound to a YNAB account has back-filled, matched
\* other accounts and saved.
C1_Witness ==
    /\ pc = "done"
    /\ hist.backfilled
    /\ hist.operated # {}
    /\ \E a \in DOMAIN prev.doc.mapping :
          /\ prev.doc.mapping[a].ynab_account_id = "y1"
          /\ prev.doc.mapping[a].ynab_budget_id = ABSENT
          /\ persisted.mapping[a].ynab_budget_id = "b1"

\* C2: in every document on disk, no two mapping entries share an
\* actual_account_id, and no two share a ynab_account_id.
C2_NoDuplicateTargets ==
    \A tag \in Tags : ~DuplicateTargets(persisted.mapping, tag)

\* A saved document in which two aggregator accounts are bound to YNAB
\* accounts, both by an escalated match.
C2_Witness ==
    /\ pc = "done"
    /\ Cardinality(hist.prompted) = 2
    /\ Cardinality({a \in DOMAIN persisted.mapping :
                       persisted.mapping[a].ynab_account_id \in YnabIds}) = 2

\* C3: at most one execution of run_sync is in progress at any time.
C3_AtMostOneSync ==
    syncs["akahu_polling_sync"] + syncs["akahu_initial_sync"] + syncs["cli"] <= 1

C5_UnchangedSkipsMatcher ==
    (prog = "mapping" /\ matches.akahu /\ matches.actual /\ matches.ynab) =>
        /\ hist.calls = {} /\ hist.operated = {} /\ hist.prompted = {}
        /\ pc \in {"save", "saving", "done"} => new_mapping = hist.merge_mapping
        /\ pc = "done" => persisted.mapping = hist.merge_mapping

\* A run that found nothing changed has saved a non-empty mapping.
C5_Witness ==
    /\ pc = "done"
    /\ matches.akahu /\ matches.actual /\ matches.ynab
    /\ hist.merge_mapping # EmptyDict

\* The target account t of a platform is in the catalog the run found and
\* upstream, under another name.
Renamed(tag, t) ==
    /\ t \in DOMAIN CatalogOf(prev.doc, tag)
    /\ t \in DOMAIN world[tag]
    /\ world[tag][t].name # CatalogOf(prev.doc, tag)[t].name

\* Nothing changed upstream since the previous run but names of target accounts.
OnlyTargetRenames ==
    /\ world.akahu = prev.world.akahu
    /\ \A tag \in Tags :
          /\ DOMAIN world[tag] = DOMAIN prev.world[tag]
          /\ \A t \in DOMAIN world[tag] :
                world[tag][t].balance = prev.world[tag][t].balance

C7_BackfillAdditive ==
    (prog = "mapping" /\ pc = "fetch_akahu") =>
        /\ DOMAIN existing.mapping = DOMAIN persisted.mapping
        /\ \A a \in DOMAIN persisted.mapping :
              LET o == persisted.mapping[a]
                  n == existing.mapping[a]
              IN  /\ n.akahu_account_id = o.akahu_account_id
                  /\ n.ynab_account_id = o.ynab_account_id
                  /\ n.actual_account_id = o.actual_account_id
                  /\ n.ynab_skip = o.ynab_skip /\ n.actual_skip = o.actual_skip
                  /\ n.ynab_budget_id # o.ynab_budget_id =>
                        o.ynab_account_id # ABSENT /\ o.ynab_budget_id = ABSENT
                  /\ n.actual_budget_id # o.actual_budget_id =>
                        o.actual_account_id # ABSENT /\ o.actual_budget_id = ABSENT

\* The backfill has added the YNAB budget id to an entry and kept the Actual
\* budget id which that entry held.
C7_Witness ==
    /\ pc = "fetch_akahu"
    /\ \E a \in DOMAIN persisted.mapping :
          /\ persisted.mapping[a].ynab_budget_id = ABSENT
          /\ existing.mapping[a].ynab_budget_id = "b1"
          /\ persisted.mapping[a].actual_budget_id = "f0"
          /\ existing.mapping[a].actual_budget_id = "f0"

\* The platforms a run fetches.
Enabled(p) == CASE p = "akahu"  -> TRUE
                [] p = "actual" -> RUN_SYNC_TO_AB(env)
                [] p = "ynab"   -> RUN_SYNC_TO_YNAB(env)

\* C8: a run in which a fetch failed is aborted: merge and save are not
\* called and the document on disk is the one the run found; merge is called
\* only with the snapshot of a successful fetch for every platform fetched.
C8_FetchFailureAborts ==
    /\ hist.failed # NONE =>
          /\ pc = "aborted"
          /\ ~hist.mergeCalled /\ ~hist.saveCalled
          /\ ~writing
          /\ persisted = prev.doc
    /\ hist.mergeCalled =>
          \A p \in Platforms : Enabled(p) => p \in hist.fetched

\* The Akahu fetch failed after the backfill had changed the mapping in
\* memory.
C8_Witness ==
    /\ pc = "aborted"
    /\ hist.failed = "akahu"
    /\ hist.backfilled
    /\ "ynab" \in hist.fetched

\* C9: the process never exits while a write of the mapping document is in
\* progress.
C9_NoExitDuringWrite == ~(pc \in {"killed", "exited"} /\ writing)

\* The credentials a program requires, and its sync flags, read off the
\* environment.
FlagTrue(k) == env[k] \in {"true", "True"}
RequiredCredentials ==
    config_required_envs
    \cup (IF prog = "mapping"
            THEN {"AKAHU_USER_TOKEN", "AKAHU_APP_TOKEN", "AKAHU_PUBLIC_KEY",
                  "OPENAI_API_KEY"}
                 \cup (IF FlagTrue("RUN_SYNC_TO_YNAB")
                         THEN {"YNAB_BEARER_TOKEN", "YNAB_BUDGET_ID"} ELSE {})
            ELSE {})
ConfigurationError ==
    \/ \E k \in RequiredCredentials : env[k] = NONE
    \/ ~FlagTrue("RUN_SYNC_TO_YNAB") /\ ~FlagTrue("RUN_SYNC_TO_AB")

\* C10: with a required credential missing or no sync target enabled the
\* process stops at start-up, having fetched, scheduled, synced and written
\* nothing; a process past start-up has a sync target enabled.
C10_ConfigErrorsFatal ==
    /\ ConfigurationError =>
          /\ pc \in {"import", "config_error"}
          /\ hist = NoHist
          /\ sched = NoSched
          /\ \A j \in JobIds : syncs[j] = 0
          /\ ~writing
          /\ persisted = prev.doc
    /\ pc \notin {"import", "config_error"} =>
          FlagTrue("RUN_SYNC_TO_YNAB") \/ FlagTrue("RUN_SYNC_TO_AB")

\* Start-up has failed with every credential of modules/config.py present: no
\* sync target is enabled.
C10_Witness ==
    /\ pc = "config_error"
    /\ \A k \in config_required_envs : env[k] # NONE
    /\ ~FlagTrue("RUN_SYNC_TO_YNAB") /\ ~FlagTrue("RUN_SYNC_TO_AB")

C12_StepOrder ==
    prog = "mapping" =>
        /\ hist.detected => \A p \in Platforms : Enabled(p) => p \in hist.fetched
        /\ hist.mergeCalled => hist.detected
        /\ hist.calls # {} => hist.mergeCalled
        /\ hist.saveCalled => pc \in {"saving", "done", "killed"}

\* C13: once the start-up validation of the script has passed, main reads no
\* configuration key that the validation did not check, and a run is aborted
\* only by the failure of a fetcher: with every fetcher succeeding the run
\* ends with save_mapping called, for every combination of sync targets.
C13_ValidatedRunSaves ==
    (prog = "mapping" /\ pc \notin {"import", "config_error"}) =>
        /\ (RUN_SYNC_TO_AB(env) /\ pc # "main") =>
              ActualArgKeys \subseteq DOMAIN ENVs(env)
        /\ pc = "aborted" => hist.failed \in Platforms
        /\ pc = "done" => hist.saveCalled

\* The fields of a mapping entry that belong to a target platform.
FieldsOf(entry, tag) == << AccountId(entry, tag), BudgetId(entry, tag), Skipped(entry, tag) >>

\* C14: for a target platform that is disabled, a run gives merge no empty
\* snapshot in place of the accounts it did not fetch, so no account of the
\* loaded catalog becomes removed; the change detector reports the platform
\* unchanged; match_accounts is not called for it; and the fields of that
\* platform are, in the saved document, what they were in the document found.
C14_DisabledPlatformUntouched ==
    (prog = "mapping" /\ pc \in {"match", "save", "saving", "done"}) =>
        \A tag \in Tags :
            ~Enabled(tag) =>
                /\ existing[tag] # EmptyDict => latest[tag] # EmptyDict
                /\ \A t \in DOMAIN existing[tag] :
                      merged[tag][t].removed = existing[tag][t].removed
                /\ matches[tag]
                /\ tag \notin hist.calls
                /\ pc = "done" =>
                      \A a \in DOMAIN prev.doc.mapping :
                          FieldsOf(persisted.mapping[a], tag) =
                              FieldsOf(prev.doc.mapping[a], tag)

=============================================================================
